---------------------------- MODULE Spec2Model ----------------------------
(***************************************************************************)
(* The single-document PDF store of pdfEmbedderAPI.                        *)
(*                                                                         *)
(* Two programs of the repository are modelled, chosen once in Init:       *)
(*   "main"  src/main.py  (FastAPI: start-up connect with retries,         *)
(*                         /upload, /latest-pdf, /health)                  *)
(*   "app"   src/app.py   (Flask: /upload, /latest-pdf)                    *)
(*                                                                         *)
(* The backing store is GridFS: a collection of file documents (fs.files)  *)
(* and a collection of chunks (fs.chunks).  fs.put inserts the chunks and  *)
(* then the file document; fs.delete removes the file document and then    *)
(* the chunks (and succeeds when there is nothing to remove); a GridOut    *)
(* carries the file document it was found with and fetches the chunks only *)
(* when it is read.  Every store call is one step of a handler, and the     *)
(* handlers of different threads interleave between store calls.           *)
(*                                                                         *)
(* main.py runs in one process (uvicorn.run).  Its upload and health        *)
(* handlers are coroutines that never await: each runs on the event loop   *)
(* from its first line to its response before another coroutine starts.    *)
(* Its download handler is a plain function, run in a worker thread beside *)
(* the event loop.  app.py's handlers all run in the threads of Flask's     *)
(* server.                                                                 *)
(*                                                                         *)
(* The store outlives the process: at start-up it is empty or holds the    *)
(* document of an earlier run.  Every modelled payload fits into one       *)
(* GridFS chunk.                                                           *)
(***************************************************************************)
EXTENDS Integers, Sequences, FiniteSets, TLC

\* Bound of the model: the upload requests of one run.
MaxUploads == 2

\* src/main.py:53 and :54
max_retries == 3
retry_delay == 2

Programs == {"main", "app"}
Uploaders == {"u1", "u2"}

APdf == <<"a", ".", "p", "d", "f">>
RPDF == <<"r", ".", "P", "D", "F">>
RTxt == <<"r", ".", "t", "x", "t">>

DotPdf == <<".", "p", "d", "f">>

\* str.lower() on the characters the file names use.
LowerChar(c) ==
    CASE c = "P" -> "p"
      [] c = "D" -> "d"
      [] c = "F" -> "f"
      [] OTHER -> c

Lower(s) == [i \in 1..Len(s) |-> LowerChar(s[i])]

EndsWith(s, suffix) ==
    /\ Len(s) >= Len(suffix)
    /\ SubSeq(s, Len(s) - Len(suffix) + 1, Len(s)) = suffix

\* pdf.filename.lower().endswith(".pdf")
IsPdfName(name) == EndsWith(Lower(name), DotPdf)

\* The multipart request of POST /upload: the "pdf" part may be missing.
NoReq == [part |-> FALSE, filename |-> <<>>, data |-> <<>>]

Req(name, data) == [part |-> TRUE, filename |-> name, data |-> data]

\* The requests clients send: a.pdf empty and with two bytes, r.PDF and r.txt
\* with the same two bytes, a file without a name, a request without the part.
Requests ==
    { Req(APdf, <<>>), Req(APdf, <<0, 1>>), Req(RPDF, <<0, 1>>), Req(RTxt, <<0, 1>>),
      Req(<<>>, <<1>>), NoReq }

\* A response.  who: the request it answers ("" for none); status: the HTTP
\* status; filename, file_id: the JSON of an upload; disposition, length, body:
\* the Content-Disposition and Content-Length headers and the bytes of a
\* download; health, database: the JSON of /health.
NoResp ==
    [who |-> "", status |-> 0, filename |-> <<>>, file_id |-> 0,
     disposition |-> <<>>, length |-> <<>>, body |-> <<>>,
     health |-> "", database |-> ""]

Error(code) == [NoResp EXCEPT !.status = code]

NoFile == [id |-> 0, filename |-> <<>>, length |-> 0, uploadDate |-> 0]

\* The document an earlier run may have left in the store, and its chunk.
OldFile == [id |-> 1, filename |-> APdf, length |-> 1, uploadDate |-> 1]

OldChunk == [files_id |-> 1, data |-> <<0>>]

\* A second document earlier uploads that raced may have left beside OldFile:
\* its identifier was drawn later and its upload date was stamped earlier.
RacedFile == [id |-> 2, filename |-> RPDF, length |-> 2, uploadDate |-> 0]

RacedChunk == [files_id |-> 2, data |-> <<1, 0>>]

NoPrev == [req |-> NoReq, id |-> 0]

NoLast == [req |-> NoReq, status |-> 0, run |-> 0, id |-> 0, phase |-> "", prev |-> NoPrev]

NoBatch == [init |-> 0, n |-> 0, ok |-> 0, ids |-> {}, miss |-> {}]

VARIABLES
    program,    \* which program of the repository runs
    startPc,    \* module start-up: "connect", "sleep", "serving", "crashed"
    attempts,   \* connection attempts made by get_mongo_client
    waited,     \* seconds slept by get_mongo_client
    client,     \* the process-wide handle: TRUE when set, FALSE for None
    storeUp,    \* whether the backing store answers
    files,      \* fs.files
    chunks,     \* fs.chunks
    nextId,     \* the next ObjectId and upload date
    nreq,       \* upload requests received so far
    upc,        \* position of each upload request
    ureq,       \* the request an upload handler is working on
    utodo,      \* identifiers enumerated by fs.find() and not yet deleted
    ucur,       \* identifier whose delete is under way (0: none)
    unew,       \* identifier of the file being put (0: none)
    rpc,        \* position of the GET /latest-pdf request
    rfile,      \* the file document the download found
    out,        \* the response the last step sent (NoResp: none)
    last,       \* the upload answered last: its request and the identifier
                \* it stored if it succeeded, its status, the step that
                \* answered, how many uploads in a row have succeeded, and the
                \* request and identifier of the success just before it
    batch       \* the uploads that overlap: the store's size when the first
                \* arrived, their number, how many succeeded, what they
                \* stored, and which of them deleted a document already gone

startVars == <<program, startPc, attempts, waited, client>>
storeVars == <<files, chunks, nextId>>
upVars == <<nreq, upc, ureq, utodo, ucur, unew, last, batch>>
getVars == <<rpc, rfile>>

vars == <<startVars, storeUp, storeVars, upVars, getVars, out>>

Init ==
    /\ program \in Programs
    /\ startPc = "connect"
    /\ attempts = 0
    /\ waited = 0
    /\ client = FALSE
    /\ storeUp \in BOOLEAN
    /\ \/ files = {} /\ chunks = {} /\ nextId = 1
       \/ files = {OldFile} /\ chunks = {OldChunk} /\ nextId = 2
    /\ nreq = 0
    /\ upc = [u \in Uploaders |-> "idle"]
    /\ ureq = [u \in Uploaders |-> NoReq]
    /\ utodo = [u \in Uploaders |-> {}]
    /\ ucur = [u \in Uploaders |-> 0]
    /\ unew = [u \in Uploaders |-> 0]
    /\ rpc = "idle"
    /\ rfile = NoFile
    /\ out = NoResp
    /\ last = NoLast
    /\ batch = NoBatch

---------------------------------------------------------------------------
\* The backing store goes away and comes back at any time.

EnvDown ==
    /\ storeUp
    /\ storeUp' = FALSE
    /\ out' = NoResp
    /\ UNCHANGED <<startVars, storeVars, upVars, getVars>>

EnvUp ==
    /\ ~storeUp
    /\ storeUp' = TRUE
    /\ out' = NoResp
    /\ UNCHANGED <<startVars, storeVars, upVars, getVars>>

---------------------------------------------------------------------------
\* Start-up.

\* main.py: the module's except clause around get_mongo_client(): the handle is
\* None and the process goes on to serve.
StartupFailed == [pc |-> "serving", client |-> FALSE]

\* A retry test that is off by one: it sleeps after the last attempt too.
RetryAfterLast(attempt) == attempt < max_retries

\* Whether the retry loop of get_mongo_client goes round again after a failed
\* attempt: "if attempt < max_retries - 1", attempt counting from 0.
Retry(attempt) == attempt < max_retries - 1

\* main.py get_mongo_client: one pass of "for attempt in range(max_retries)".
\* The ping succeeds when the store answers; otherwise the loop sleeps and goes
\* round again, or re-raises at the last attempt.
Connect ==
    /\ program = "main"
    /\ startPc = "connect"
    /\ attempts < max_retries
    /\ attempts' = attempts + 1
    /\ IF storeUp
         THEN /\ client' = TRUE
              /\ startPc' = "serving"
         ELSE IF Retry(attempts)
                THEN /\ startPc' = "sleep"
                     /\ client' = client
                ELSE /\ startPc' = StartupFailed.pc
                     /\ client' = StartupFailed.client
    /\ out' = NoResp
    /\ UNCHANGED <<program, waited, storeUp, storeVars, upVars, getVars>>

\* time.sleep(retry_delay); continue.  A loop that ran out of attempts here
\* would return no handle, and the module's use of it would raise into the
\* same except clause.
Sleep ==
    /\ program = "main"
    /\ startPc = "sleep"
    /\ waited' = waited + retry_delay
    /\ IF attempts < max_retries
         THEN /\ startPc' = "connect"
              /\ client' = client
         ELSE /\ startPc' = StartupFailed.pc
              /\ client' = StartupFailed.client
    /\ out' = NoResp
    /\ UNCHANGED <<program, attempts, storeUp, storeVars, upVars, getVars>>

\* app.py: MongoClient(MONGO_URI) connects lazily and does not ping.
AppStart ==
    /\ program = "app"
    /\ startPc = "connect"
    /\ client' = TRUE
    /\ startPc' = "serving"
    /\ out' = NoResp
    /\ UNCHANGED <<program, attempts, waited, storeUp, storeVars, upVars, getVars>>

---------------------------------------------------------------------------
\* POST /upload.

UploadInProgress(u) == upc[u] # "idle"

NoUpload == \A u \in Uploaders : ~UploadInProgress(u)

\* A request arrives and is served in the first free slot.  FastAPI's
\* File(...) hands main.py's handler only requests that carry the part; app.py
\* checks for it itself.
UploadRequest(u) ==
    /\ startPc = "serving"
    /\ ~UploadInProgress(u)
    /\ u = "u2" => UploadInProgress("u1")
    /\ nreq < MaxUploads
    /\ \E req \in Requests :
          /\ program = "main" => req.part
          /\ ureq' = [ureq EXCEPT ![u] = req]
    /\ nreq' = nreq + 1
    /\ upc' = [upc EXCEPT ![u] = "recv"]
    /\ batch' = IF NoUpload
                  THEN [init |-> Cardinality(files), n |-> 1, ok |-> 0, ids |-> {},
                        miss |-> {}]
                  ELSE [batch EXCEPT !.n = @ + 1, !.miss = @ \ {u}]
    /\ out' = NoResp
    /\ UNCHANGED <<startVars, storeUp, storeVars, utodo, ucur, unew, last, getVars>>

\* The handler returns or raises: the response goes out and its locals are gone.
Respond(u, resp) ==
    /\ upc' = [upc EXCEPT ![u] = "idle"]
    /\ out' = [resp EXCEPT !.who = u]
    /\ last' = [req |-> IF resp.status = 200 THEN ureq[u] ELSE NoReq,
                status |-> resp.status,
                run |-> IF resp.status = 200 THEN last.run + 1 ELSE 0,
                id |-> IF resp.status = 200 THEN unew[u] ELSE 0,
                phase |-> upc[u],
                prev |-> IF resp.status = 200 /\ last.status = 200
                           THEN [req |-> last.req, id |-> last.id]
                           ELSE NoPrev]
    /\ batch' = IF resp.status = 200
                  THEN [batch EXCEPT !.ok = @ + 1, !.ids = @ \cup {unew[u]}]
                  ELSE batch
    /\ ureq' = [ureq EXCEPT ![u] = NoReq]
    /\ utodo' = [utodo EXCEPT ![u] = {}]
    /\ ucur' = [ucur EXCEPT ![u] = 0]
    /\ unew' = [unew EXCEPT ![u] = 0]

\* main.py upload_pdf, "except Exception": whatever the try block raised, the
\* HTTPException(400) of the file-name check included, becomes a 500.
UploadExcept(raised) == Error(500)

\* A validation that lets every file name through.
MainValidateNoName(req) == IF ~client THEN Error(503) ELSE NoResp

\* main.py upload_pdf up to the first store call.
MainValidate(req) ==
    IF ~client
      THEN Error(503)
      ELSE IF ~IsPdfName(req.filename)
             THEN UploadExcept(Error(400))
             ELSE NoResp

\* app.py upload_pdf up to the first store call.
AppValidate(req) ==
    IF ~req.part
      THEN Error(400)
      ELSE IF req.filename = <<>>
             THEN Error(400)
             ELSE NoResp

\* A failed store call that is answered as an unavailable service.
UploadStoreErrorUnavailable == Error(503)

\* What a store call that fails does to the upload: main.py's except clause
\* answers 500; app.py has no handler and Flask answers 500.
UploadStoreError == IF program = "main" THEN UploadExcept(Error(0)) ELSE Error(500)

\* main.py: "async def" handlers without an await share the event loop, which
\* is free when no other upload handler is between its first line and its
\* response.  app.py's handlers need no loop.
LoopFree(u) ==
    program = "main" => \A v \in Uploaders \ {u} : upc[v] \in {"idle", "recv"}

UploadBegin(u) ==
    /\ upc[u] = "recv"
    /\ LoopFree(u)
    /\ LET r == IF program = "main" THEN MainValidate(ureq[u]) ELSE AppValidate(ureq[u])
       IN  IF r = NoResp
             THEN /\ upc' = [upc EXCEPT ![u] = "find"]
                  /\ out' = NoResp
                  /\ UNCHANGED <<ureq, utodo, ucur, unew, last, batch>>
             ELSE Respond(u, r)
    /\ UNCHANGED <<startVars, storeUp, storeVars, nreq, getVars>>

\* An enumeration that finds nothing to delete.
EnumerateNothing == {}

\* An enumeration that finds only the document uploaded last.
EnumerateLatest ==
    {f.id : f \in {g \in files : \A h \in files : h.uploadDate <= g.uploadDate}}

\* fs.find(): the cursor's first batch holds every file document.
Enumerate == {f.id : f \in files}

\* "for old_file in fs.find()": the enumeration; with nothing to delete the
\* handler goes on to the put.
UploadFind(u) ==
    /\ upc[u] = "find"
    /\ IF ~storeUp
         THEN Respond(u, UploadStoreError)
         ELSE /\ utodo' = [utodo EXCEPT ![u] = Enumerate]
              /\ upc' = [upc EXCEPT ![u] = IF Enumerate = {} THEN "put" ELSE "delete"]
              /\ out' = NoResp
              /\ UNCHANGED <<ureq, ucur, unew, last, batch>>
    /\ UNCHANGED <<startVars, storeUp, storeVars, nreq, getVars>>

\* A delete that raises when the file document is already gone.
DeleteFailsIfMissing(id) == ~storeUp \/ id \notin Enumerate

\* Whether fs.delete(id) raises: GridFS.delete is a delete_one on fs.files and
\* a delete_many on fs.chunks and does not look at how many they removed, so
\* only a store that does not answer makes it raise.
DeleteFails(id) == ~storeUp

\* fs.delete(old_file._id), first half: the file document goes.
UploadDeleteFile(u) ==
    /\ upc[u] = "delete"
    /\ \E id \in utodo[u] :
          IF DeleteFails(id)
            THEN /\ Respond(u, UploadStoreError)
                 /\ UNCHANGED files
            ELSE /\ files' = {f \in files : f.id # id}
                 /\ ucur' = [ucur EXCEPT ![u] = id]
                 /\ utodo' = [utodo EXCEPT ![u] = @ \ {id}]
                 /\ upc' = [upc EXCEPT ![u] = "delchunks"]
                 /\ batch' = IF id \in Enumerate
                               THEN batch
                               ELSE [batch EXCEPT !.miss = @ \cup {u}]
                 /\ out' = NoResp
                 /\ UNCHANGED <<ureq, unew, last>>
    /\ UNCHANGED <<startVars, storeUp, chunks, nextId, nreq, getVars>>

\* fs.delete(old_file._id), second half: its chunks go; then the next one.
UploadDeleteChunks(u) ==
    /\ upc[u] = "delchunks"
    /\ IF ~storeUp
         THEN /\ Respond(u, UploadStoreError)
              /\ UNCHANGED chunks
         ELSE /\ chunks' = {c \in chunks : c.files_id # ucur[u]}
              /\ ucur' = [ucur EXCEPT ![u] = 0]
              /\ upc' = [upc EXCEPT ![u] = IF utodo[u] = {} THEN "put" ELSE "delete"]
              /\ out' = NoResp
              /\ UNCHANGED <<ureq, utodo, unew, last, batch>>
    /\ UNCHANGED <<startVars, storeUp, files, nextId, nreq, getVars>>

\* The chunks fs.put writes for a payload: none for an empty one.
ChunksOf(id, data) == IF Len(data) = 0 THEN {} ELSE {[files_id |-> id, data |-> data]}

\* A file document that keeps the lowered name of the file-name check.
FileDocLowered(id, req, stamp) ==
    [id |-> id, filename |-> Lower(req.filename), length |-> Len(req.data),
     uploadDate |-> stamp]

\* The file document fs.put writes.
FileDoc(id, req, stamp) ==
    [id |-> id, filename |-> req.filename, length |-> Len(req.data),
     uploadDate |-> stamp]

\* An identifier that is drawn again: the one drawn just before.
ReusedObjectId == IF nextId > 1 THEN nextId - 1 ELSE nextId

\* ObjectId(): an identifier no earlier call returned.
NewObjectId == nextId

\* A put that waits for a store that does not answer instead of raising.
UploadPutChunksWaiting(u) ==
    /\ upc[u] = "put"
    /\ IF ~storeUp
         THEN /\ out' = out
              /\ UNCHANGED <<chunks, nextId, upc, ureq, utodo, ucur, unew, last, batch>>
         ELSE /\ unew' = [unew EXCEPT ![u] = NewObjectId]
              /\ nextId' = nextId + 1
              /\ chunks' = chunks \cup ChunksOf(NewObjectId, ureq[u].data)
              /\ upc' = [upc EXCEPT ![u] = "putfiles"]
              /\ out' = NoResp
              /\ UNCHANGED <<ureq, utodo, ucur, last, batch>>
    /\ UNCHANGED <<startVars, storeUp, files, nreq, getVars>>

\* fs.put, first half: a fresh identifier, the chunks, the upload date.
UploadPutChunks(u) ==
    /\ upc[u] = "put"
    /\ IF ~storeUp
         THEN /\ Respond(u, UploadStoreError)
              /\ UNCHANGED <<chunks, nextId>>
         ELSE /\ unew' = [unew EXCEPT ![u] = NewObjectId]
              /\ nextId' = nextId + 1
              /\ chunks' = chunks \cup ChunksOf(NewObjectId, ureq[u].data)
              /\ upc' = [upc EXCEPT ![u] = "putfiles"]
              /\ out' = NoResp
              /\ UNCHANGED <<ureq, utodo, ucur, last, batch>>
    /\ UNCHANGED <<startVars, storeUp, files, nreq, getVars>>

\* The JSON of a successful upload.
Uploaded(u) ==
    [NoResp EXCEPT !.status = 200,
                   !.filename = IF program = "main" THEN ureq[u].filename ELSE <<>>,
                   !.file_id = IF program = "main" THEN unew[u] ELSE 0]

\* A put that answers without its file document having reached fs.files.
UploadPutFileLost(u) ==
    /\ upc[u] = "putfiles"
    /\ IF ~storeUp
         THEN /\ Respond(u, UploadStoreError)
              /\ UNCHANGED files
         ELSE /\ files' = files
              /\ Respond(u, Uploaded(u))
    /\ UNCHANGED <<startVars, storeUp, chunks, nextId, nreq, getVars>>

\* fs.put, second half: the file document; then the handler returns.
UploadPutFile(u) ==
    /\ upc[u] = "putfiles"
    /\ IF ~storeUp
         THEN /\ Respond(u, UploadStoreError)
              /\ UNCHANGED files
         ELSE /\ files' = files \cup {FileDoc(unew[u], ureq[u], unew[u])}
              /\ Respond(u, Uploaded(u))
    /\ UNCHANGED <<startVars, storeUp, chunks, nextId, nreq, getVars>>

Upload(u) ==
    \/ UploadBegin(u)
    \/ UploadFind(u)
    \/ UploadDeleteFile(u)
    \/ UploadDeleteChunks(u)
    \/ UploadPutChunks(u)
    \/ UploadPutFile(u)

---------------------------------------------------------------------------
\* GET /latest-pdf.

\* main.py get_latest_pdf, "except Exception": whatever the try block raised,
\* the HTTPException(404) of the empty store included, becomes a 500.
GetExcept(raised) == Error(500)

\* The answer to an empty store: main.py raises 404 inside its try block,
\* app.py returns 404.
GetNoFile == IF program = "main" THEN GetExcept(Error(404)) ELSE Error(404)

\* A store call that fails: main.py's except clause answers 500; app.py has no
\* handler and Flask answers 500.
GetStoreError == IF program = "main" THEN GetExcept(Error(0)) ELSE Error(500)

\* A lookup that sorts by identifier.
LatestById(docs) == CHOOSE f \in docs : \A g \in docs : g.id <= f.id

\* fs.find().sort("uploadDate", -1).limit(1)
Latest(docs) == CHOOSE f \in docs : \A g \in docs : g.uploadDate <= f.uploadDate

\* file.read(): an empty file is read without asking the store; otherwise the
\* chunks of the file are fetched, and a file whose chunks are gone is corrupt.
HasChunks(f) == \E c \in chunks : c.files_id = f.id

\* A read that stops after the first byte.
ReadFileTruncated(f) == SubSeq((CHOOSE c \in chunks : c.files_id = f.id).data, 1, 1)

ReadFile(f) == (CHOOSE c \in chunks : c.files_id = f.id).data

Digits == <<"0", "1", "2", "3", "4", "5", "6", "7", "8", "9">>

\* str(n) for n >= 0: the decimal digits.
RECURSIVE Str(_)
Str(n) == IF n < 10 THEN <<Digits[n + 1]>> ELSE Str(n \div 10) \o <<Digits[(n % 10) + 1]>>

\* f'inline; filename="{file.filename}"'
ContentDisposition(name) == <<"inline; filename=", "\"">> \o name \o <<"\"">>

\* The 200 response: main.py frames it from the file document, app.py's
\* send_file from the bytes it was given (and without a Content-Disposition).
Served(f, body) ==
    IF program = "main"
      THEN [NoResp EXCEPT !.status = 200,
                          !.disposition = ContentDisposition(f.filename),
                          !.length = Str(f.length), !.body = body]
      ELSE [NoResp EXCEPT !.status = 200, !.length = Str(Len(body)), !.body = body]

GetRespond(resp) ==
    /\ rpc' = "idle"
    /\ out' = [resp EXCEPT !.who = "get"]
    /\ rfile' = NoFile

\* The request arrives; main.py answers 503 when it has no handle.
GetRequest ==
    /\ startPc = "serving"
    /\ rpc = "idle"
    /\ IF program = "main" /\ ~client
         THEN GetRespond(Error(503))
         ELSE /\ rpc' = "find"
              /\ out' = NoResp
              /\ UNCHANGED rfile
    /\ UNCHANGED <<startVars, storeUp, storeVars, upVars>>

\* The lookup of the latest file document.
GetFind ==
    /\ rpc = "find"
    /\ IF ~storeUp
         THEN GetRespond(GetStoreError)
         ELSE IF files = {}
                THEN GetRespond(GetNoFile)
                ELSE /\ rfile' = Latest(files)
                     /\ rpc' = "read"
                     /\ out' = NoResp
    /\ UNCHANGED <<startVars, storeUp, storeVars, upVars>>

\* The read of its payload, and the response.
GetRead ==
    /\ rpc = "read"
    /\ IF rfile.length = 0
         THEN GetRespond(Served(rfile, <<>>))
         ELSE IF ~storeUp \/ ~HasChunks(rfile)
                THEN GetRespond(GetStoreError)
                ELSE GetRespond(Served(rfile, ReadFile(rfile)))
    /\ UNCHANGED <<startVars, storeUp, storeVars, upVars>>

---------------------------------------------------------------------------
\* GET /health (main.py only).

\* A health check that does not ping.
HealthNoPing ==
    IF ~client
      THEN [NoResp EXCEPT !.status = 200, !.health = "unhealthy",
                          !.database = "not connected"]
      ELSE [NoResp EXCEPT !.status = 200, !.health = "healthy",
                          !.database = "connected"]

\* A health check that pings through a connection of its own.
HealthPingOnly ==
    IF ~storeUp
      THEN [NoResp EXCEPT !.status = 200, !.health = "unhealthy",
                          !.database = "connection failed"]
      ELSE [NoResp EXCEPT !.status = 200, !.health = "healthy",
                          !.database = "connected"]

\* main.py health_check: no handle, or a ping that raises, or a ping that
\* answers; always a 200.
HealthResult ==
    IF ~client
      THEN [NoResp EXCEPT !.status = 200, !.health = "unhealthy",
                          !.database = "not connected"]
      ELSE IF ~storeUp
             THEN [NoResp EXCEPT !.status = 200, !.health = "unhealthy",
                                 !.database = "connection failed"]
             ELSE [NoResp EXCEPT !.status = 200, !.health = "healthy",
                                 !.database = "connected"]

HealthCheck ==
    /\ program = "main"
    /\ startPc = "serving"
    /\ LoopFree("health")
    /\ out' = [HealthResult EXCEPT !.who = "health"]
    /\ UNCHANGED <<startVars, storeUp, storeVars, upVars, getVars>>

---------------------------------------------------------------------------
\* The service: requests of every kind overlap freely.

Next ==
    \/ EnvDown
    \/ EnvUp
    \/ Connect
    \/ Sleep
    \/ AppStart
    \/ \E u \in Uploaders : UploadRequest(u)
    \/ \E u \in Uploaders : Upload(u)
    \/ GetRequest
    \/ GetFind
    \/ GetRead
    \/ HealthCheck

Spec == Init /\ [][Next]_vars

---------------------------------------------------------------------------
\* The service with its uploads one at a time: a request for an upload
\* arrives only when no upload is in progress.  Downloads, health checks and
\* the store's outages go on as before.

SerialUploadRequest(u) == NoUpload /\ UploadRequest(u)

SerialNext ==
    \/ EnvDown
    \/ EnvUp
    \/ Connect
    \/ Sleep
    \/ AppStart
    \/ \E u \in Uploaders : SerialUploadRequest(u)
    \/ \E u \in Uploaders : Upload(u)
    \/ GetRequest
    \/ GetFind
    \/ GetRead
    \/ HealthCheck

SerialSpec == Init /\ [][SerialNext]_vars

---------------------------------------------------------------------------
\* One client that sends its requests one after the other, and a store that
\* stays as it is once the process serves.

Quiet == NoUpload /\ rpc = "idle"

SeqEnvDown == startPc # "serving" /\ EnvDown

SeqEnvUp == startPc # "serving" /\ EnvUp

SeqUploadRequest(u) == Quiet /\ UploadRequest(u)

SeqGetRequest == Quiet /\ GetRequest

SeqHealthCheck == Quiet /\ HealthCheck

SeqNext ==
    \/ SeqEnvDown
    \/ SeqEnvUp
    \/ Connect
    \/ Sleep
    \/ AppStart
    \/ \E u \in Uploaders : SeqUploadRequest(u)
    \/ \E u \in Uploaders : Upload(u)
    \/ SeqGetRequest
    \/ GetFind
    \/ GetRead
    \/ SeqHealthCheck

SeqSpec == Init /\ [][SeqNext]_vars

---------------------------------------------------------------------------
\* The service with its uploads one at a time, each handler scheduled fairly:
\* a thread that can take its next step eventually takes it.

FairSerialSpec == SerialSpec /\ \A u \in Uploaders : WF_vars(Upload(u))

---------------------------------------------------------------------------
\* A process that starts on a store in which earlier uploads that raced have
\* left two documents.

InitLeftover ==
    /\ program \in Programs
    /\ startPc = "connect"
    /\ attempts = 0
    /\ waited = 0
    /\ client = FALSE
    /\ storeUp \in BOOLEAN
    /\ files = {OldFile, RacedFile}
    /\ chunks = {OldChunk, RacedChunk}
    /\ nextId = 3
    /\ nreq = 0
    /\ upc = [u \in Uploaders |-> "idle"]
    /\ ureq = [u \in Uploaders |-> NoReq]
    /\ utodo = [u \in Uploaders |-> {}]
    /\ ucur = [u \in Uploaders |-> 0]
    /\ unew = [u \in Uploaders |-> 0]
    /\ rpc = "idle"
    /\ rfile = NoFile
    /\ out = NoResp
    /\ last = NoLast
    /\ batch = NoBatch

\* Its uploads one at a time.
LeftoverSerialSpec == InitLeftover /\ [][SerialNext]_vars

\* Its requests overlapping freely.
LeftoverSpec == InitLeftover /\ [][Next]_vars

---------------------------------------------------------------------------
\* The replace of two accepted uploads as a function of their schedule: which
\* thread takes the next store call.  The store answers every call.  Only
\* fs.files is followed (the identifiers of its documents); the calls on
\* fs.chunks are steps that leave it alone.

\* Bound: the store calls of a schedule (each upload makes at most five).
ScheduleLen == 10

Schedules == [1..ScheduleLen -> Uploaders]

\* Two uploads, both accepted, before their first store call, on a store that
\* holds the documents ids and draws its next identifier as nid.
ReplaceInit(ids, nid) ==
    [files |-> ids, next |-> nid,
     pc |-> [u \in Uploaders |-> "find"],
     todo |-> [u \in Uploaders |-> {}],
     new |-> [u \in Uploaders |-> 0]]

\* The next store call of upload u: the enumeration, the two halves of
\* fs.delete for an enumerated identifier, the two halves of fs.put.
ReplaceStep(st, u) ==
    CASE st.pc[u] = "find" ->
           [st EXCEPT !.todo[u] = st.files,
                      !.pc[u] = IF st.files = {} THEN "put" ELSE "delete"]
      [] st.pc[u] = "delete" ->
           LET id == CHOOSE i \in st.todo[u] : \A j \in st.todo[u] : i <= j
           IN  [st EXCEPT !.files = @ \ {id},
                          !.todo[u] = @ \ {id},
                          !.pc[u] = "delchunks"]
      [] st.pc[u] = "delchunks" ->
           [st EXCEPT !.pc[u] = IF st.todo[u] = {} THEN "put" ELSE "delete"]
      [] st.pc[u] = "put" ->
           [st EXCEPT !.new[u] = st.next, !.next = @ + 1, !.pc[u] = "putfiles"]
      [] st.pc[u] = "putfiles" ->
           [st EXCEPT !.files = @ \cup {st.new[u]}, !.pc[u] = "done"]
      [] OTHER -> st

RECURSIVE ReplaceRun(_, _)
ReplaceRun(st, sched) ==
    IF sched = <<>>
      THEN st
      ELSE ReplaceRun(ReplaceStep(st, Head(sched)), Tail(sched))

\* The stores two uploads leave behind when both have returned, over every
\* schedule.
ReplaceOutcomes(ids, nid) ==
    {ReplaceRun(ReplaceInit(ids, nid), sched).files :
        sched \in {x \in Schedules :
                     \A u \in Uploaders :
                         ReplaceRun(ReplaceInit(ids, nid), x).pc[u] = "done"}}

---------------------------------------------------------------------------
\* What a client does with the headers of a download.

RECURSIVE ParseInt(_)
ParseInt(s) ==
    IF s = <<>>
      THEN 0
      ELSE 10 * ParseInt(SubSeq(s, 1, Len(s) - 1))
             + (CHOOSE i \in 0..9 : Digits[i + 1] = s[Len(s)])

Contains(s, part) ==
    \E i \in 1..(Len(s) + 1) :
        /\ i + Len(part) - 1 <= Len(s)
        /\ SubSeq(s, i, i + Len(part) - 1) = part

---------------------------------------------------------------------------
\* The claims.

\* C1 (SerialSpec).  Uploads that run one at a time: whenever no upload is in
\* progress and the upload answered last succeeded, the store holds exactly one
\* file document; its name and length are those of that upload, it is what the
\* download's lookup finds, and its payload reads back as the uploaded bytes.
\* Nothing uploaded before it is enumerable.
C1_SerialUploadsKeepOneDocument ==
    (NoUpload /\ last.status = 200) =>
        \E d \in files :
            /\ files = {d}
            /\ Enumerate = {d.id}
            /\ d.filename = last.req.filename
            /\ d.length = Len(last.req.data)
            /\ Latest(files) = d
            /\ d.length > 0 => (HasChunks(d) /\ ReadFile(d) = last.req.data)

\* Two uploads in a row have succeeded, starting from the empty store.
C1_Witness ==
    /\ NoUpload
    /\ last.run = 2
    /\ nextId = 3
    /\ Cardinality(files) = 1

\* C2 (Spec).  Two uploads that overlap on a store that held one document, both
\* answered 200: the store ends with exactly one file document, stored by one
\* of the two.
C2_Original ==
    (NoUpload /\ batch.init = 1 /\ batch.n = 2 /\ batch.ok = 2) =>
        /\ Cardinality(files) = 1
        /\ \A f \in files : f.id \in batch.ids

\* C3 (SerialSpec).  Uploads that run one at a time on a store of at most one
\* document: the store never holds more than one file document, and an upload
\* that has reached its write has deleted everything it enumerated and has left
\* the store empty.
C3_DeleteBeforeWrite ==
    /\ Cardinality(files) <= 1
    /\ \A u \in Uploaders :
          upc[u] \in {"put", "putfiles"} => (utodo[u] = {} /\ files = {})

\* An upload found one document, has deleted it and is about to write.
C3_Witness ==
    \E u \in Uploaders :
        /\ upc[u] = "putfiles"
        /\ batch.init = 1
        /\ files = {}

\* C4 (Spec).  A download whose lookup found a document, and whose read runs
\* while the store answers, returns that document complete or reports "not
\* found", whatever an upload did in between.
C4_Original ==
    [][ (program = "main" /\ rpc = "read" /\ out'.who = "get" /\ client /\ storeUp)
          => \/ out'.status = 404
             \/ /\ out'.status = 200
                /\ Len(out'.body) = rfile.length ]_vars

\* C5 (Spec).  With the store connected, the upload handler answers a file name
\* that does not end in ".pdf" (any case) with 400, and lets one that does go on
\* to the replace.
C5_Original ==
    [][ \A u \in Uploaders :
          (upc[u] = "recv" /\ upc'[u] # "recv" /\ ureq[u].part /\ client /\ storeUp)
            => IF IsPdfName(ureq[u].filename)
                 THEN upc'[u] = "find"
                 ELSE out'.who = u /\ out'.status = 400 ]_vars

\* C6 (Spec).  With the store connected and empty, the download's lookup
\* answers 404.
C6_Original ==
    [][ (rpc = "find" /\ out'.who = "get" /\ client /\ storeUp /\ files = {})
          => out'.status = 404 ]_vars

\* C7 (Spec).  main.py: while the store is disconnected (no handle, or a store
\* that no longer answers), every upload and download that is answered is
\* answered 503, and every health check says unhealthy.
C7_Original ==
    (program = "main" /\ out.who # "" /\ (~client \/ ~storeUp)) =>
        IF out.who = "health"
          THEN out.health = "unhealthy"
          ELSE out.status = 503

\* C8 (Spec).  main.py: a health check always answers 200 with a status; it says
\* healthy exactly when the handle is set and the store answers the ping, "not
\* connected" without a handle and "connection failed" when the ping fails.
C8_HealthCheck ==
    out.who = "health" =>
        /\ out.status = 200
        /\ out.health \in {"healthy", "unhealthy"}
        /\ out.health = "healthy" <=> (client /\ storeUp)
        /\ ~client => (out.health = "unhealthy" /\ out.database = "not connected")
        /\ (client /\ ~storeUp) =>
              (out.health = "unhealthy" /\ out.database = "connection failed")
        /\ (client /\ storeUp) => out.database = "connected"

\* A health check answered while the handle was set and the store was away.
C8_Witness == out.who = "health" /\ out.database = "connection failed"

\* C9 (Spec).  main.py start-up: at most max_retries attempts; the handle is set
\* only by the attempt that ends the loop; one sleep of retry_delay between two
\* attempts and none after the last; without a handle only after max_retries
\* attempts; the loop can always take its next step, the process never crashes,
\* and once it serves it accepts requests.
C9_StartupConnect ==
    program = "main" =>
        /\ attempts <= max_retries
        /\ startPc # "crashed"
        /\ startPc = "connect" =>
              /\ ~client
              /\ attempts < max_retries
              /\ waited = retry_delay * attempts
        /\ startPc = "sleep" =>
              /\ ~client
              /\ attempts \in 1..(max_retries - 1)
              /\ waited = retry_delay * (attempts - 1)
        /\ startPc = "serving" =>
              /\ attempts >= 1
              /\ waited = retry_delay * (attempts - 1)
              /\ ~client => attempts = max_retries
              /\ rpc = "idle" => ENABLED GetRequest
        /\ startPc # "serving" => ENABLED (Connect \/ Sleep)

\* Start-up gave up, the process serves without a handle and has just answered
\* a download with 503.
C9_Witness ==
    /\ program = "main"
    /\ startPc = "serving"
    /\ ~client
    /\ attempts = max_retries
    /\ out.who = "get"
    /\ out.status = 503

\* C10 (SeqSpec).  main.py, one request after the other: a download answered
\* after a successful upload is a 200 whose body is the uploaded bytes, whose
\* Content-Disposition holds the uploaded name and whose Content-Length is the
\* number of uploaded bytes.
C10_RoundTrip ==
    (program = "main" /\ out.who = "get" /\ last.status = 200) =>
        /\ out.status = 200
        /\ out.body = last.req.data
        /\ Contains(out.disposition, last.req.filename)
        /\ ParseInt(out.length) = Len(last.req.data)

\* A two-byte upload came back.
C10_Witness ==
    /\ program = "main"
    /\ out.who = "get"
    /\ out.status = 200
    /\ last.status = 200
    /\ Len(out.body) = 2

\* C11 (SeqSpec).  One request after the other: after an upload that succeeded
\* the store holds one file document, the one that upload stored, and a
\* download returns the uploaded bytes; when the same file name and bytes were
\* uploaded twice in a row, the second upload stored a different identifier
\* than the first and the download returns the same bytes as after the first.
C11_SameUploadTwice ==
    (NoUpload /\ last.status = 200) =>
        /\ Cardinality(files) = 1
        /\ Enumerate = {last.id}
        /\ out.who = "get" => (out.status = 200 /\ out.body = last.req.data)
        /\ (last.run = 2 /\ last.prev.req = last.req) =>
              /\ last.id # last.prev.id
              /\ last.prev.id # 0
              /\ out.who = "get" => out.body = last.prev.req.data

\* The same two bytes under the same name were uploaded twice in a row and
\* have just been downloaded.
C11_Witness ==
    /\ NoUpload
    /\ last.run = 2
    /\ last.prev.req = last.req
    /\ Len(last.req.data) = 2
    /\ out.who = "get"
    /\ out.status = 200

\* C12 as stated (Spec).  Whenever the process serves a store of one document
\* and no upload is in progress: among the schedules of the enumerate, delete
\* and write steps of two uploads that start now there is one after which the
\* store holds no document, and one after which it holds two.
C12_Original ==
    (startPc = "serving" /\ NoUpload /\ Cardinality(files) = 1) =>
        /\ \E fs \in ReplaceOutcomes(Enumerate, nextId) : Cardinality(fs) = 0
        /\ \E fs \in ReplaceOutcomes(Enumerate, nextId) : Cardinality(fs) = 2

\* C12 (Spec).  Two uploads that overlap and both succeed never leave the store
\* without a document: it ends with one file document or with two, each stored
\* by one of the two uploads, and the document of the upload that answered last
\* is among them.
C12_OverlappingUploadsLeaveOneOrTwo ==
    (NoUpload /\ batch.n = 2 /\ batch.ok = 2) =>
        /\ Cardinality(files) \in {1, 2}
        /\ last.id \in Enumerate
        /\ Enumerate \subseteq batch.ids

\* Two uploads overlapped, both succeeded, and the store holds two documents.
C12_Witness ==
    /\ NoUpload
    /\ batch.n = 2
    /\ batch.ok = 2
    /\ Cardinality(files) = 2
    /\ batch.miss # {}

\* C13 (Spec).  While the store answers, the delete of an enumerated identifier
\* never ends the upload, whether or not its document is still there: the
\* handler goes on.  An upload that deleted an identifier already gone, and
\* whose later store calls are answered, writes its document and answers 200.
C13_DeleteOfMissingIsSuccess ==
    [][ \A u \in Uploaders :
          /\ (upc[u] = "delete" /\ storeUp /\ upc'[u] # "delete") =>
                (upc'[u] = "delchunks" /\ out'.who # u)
          /\ (u \in batch.miss /\ UploadInProgress(u) /\ storeUp /\ out'.who = u) =>
                /\ out'.status = 200
                /\ unew[u] \in Enumerate' ]_vars

\* An upload that deleted an identifier already gone has just answered 200.
C13_Witness ==
    \E u \in Uploaders :
        /\ u \in batch.miss
        /\ out.who = u
        /\ out.status = 200
        /\ last.id \in Enumerate

\* C14 (Spec).  Every step of a download and every health check leaves fs.files
\* and fs.chunks as they are; so does the step in which an upload is validated,
\* rejected or not, and every step in which an upload is answered with an
\* error.  A step that removes a file document or a chunk is a delete step of
\* an upload the handler accepted: the handle is set, the store answers, and
\* the file name passed the handler's check.
C14_OnlyAcceptedUploadsRemove ==
    [][ /\ (rpc' # rpc \/ out'.who \in {"get", "health"}) =>
              (files' = files /\ chunks' = chunks)
        /\ \A u \in Uploaders :
              /\ (upc[u] = "recv" /\ upc'[u] # "recv") =>
                    (files' = files /\ chunks' = chunks)
              /\ (out'.who = u /\ out'.status # 200) =>
                    (files' = files /\ chunks' = chunks)
        /\ (~(files \subseteq files') \/ ~(chunks \subseteq chunks')) =>
              \E u \in Uploaders :
                  /\ upc[u] \in {"delete", "delchunks"}
                  /\ upc'[u] # upc[u]
                  /\ client
                  /\ storeUp
                  /\ ureq[u].part
                  /\ ureq[u].filename # <<>>
                  /\ program = "main" => IsPdfName(ureq[u].filename) ]_vars

\* main.py has just turned away an upload at its file-name check, and the
\* document of the earlier run is still stored.
C14_Witness ==
    /\ program = "main"
    /\ client
    /\ out.who \in Uploaders
    /\ out.status # 200
    /\ last.phase = "recv"
    /\ files = {OldFile}
    /\ chunks = {OldChunk}

\* C15 (Spec).  Once the process serves, no step changes the handle or takes
\* the process back to start-up.  In main.py, a process that serves without a
\* handle has made max_retries attempts, and whatever the store does it answers
\* every upload and download 503 and every health check unhealthy, "not
\* connected".
C15_HandleSetOnce ==
    [][ startPc = "serving" =>
          /\ client' = client
          /\ startPc' = "serving"
          /\ (program = "main" /\ ~client) =>
                /\ attempts = max_retries
                /\ out'.who \in Uploaders \cup {"get"} => out'.status = 503
                /\ out'.who = "health" =>
                      /\ out'.health = "unhealthy"
                      /\ out'.database = "not connected" ]_vars

\* Start-up gave up, the store has come back since, and an upload has just
\* been answered 503.
C15_Witness ==
    /\ program = "main"
    /\ startPc = "serving"
    /\ ~client
    /\ storeUp
    /\ out.who \in Uploaders
    /\ out.status = 503

\* C16 (FairSerialSpec).  Uploads one at a time, handlers scheduled fairly: an
\* upload that has deleted what it enumerated and has not yet written, the
\* store being empty, is eventually answered, either 200 with its document
\* stored or 500.
C16_EmptyWindowIsTransient ==
    \A u \in Uploaders :
        (upc[u] \in {"put", "putfiles"} /\ files = {})
          ~> (out.who = u /\ ((out.status = 200 /\ Enumerate = {last.id})
                                \/ out.status = 500))

\* An upload that found the document of the earlier run has just answered 200
\* from its write, and its document is the one stored.
C16_Witness ==
    /\ out.who \in Uploaders
    /\ out.status = 200
    /\ batch.init = 1
    /\ last.phase = "putfiles"
    /\ Enumerate = {last.id}

\* C17 (SerialSpec).  Uploads one at a time: a write step that finds the store
\* not answering ends the upload with a 500 and leaves fs.files empty; nothing
\* puts the deleted document back, so as long as that upload is the one
\* answered last the store stays empty and a download's lookup finds no file.
C17_FailedWriteLeavesEmptyStore ==
    [][ /\ \A u \in Uploaders :
              (upc[u] \in {"put", "putfiles"} /\ ~storeUp /\ upc'[u] # upc[u]) =>
                  /\ out'.who = u
                  /\ out'.status = 500
                  /\ files' = {}
                  /\ last'.phase = upc[u]
        /\ (NoUpload /\ last.status = 500 /\ last.phase \in {"put", "putfiles"}) =>
              /\ files = {}
              /\ files' = {}
              /\ (rpc = "find" /\ rpc' # "find") =>
                    /\ rpc' = "idle"
                    /\ rfile' = NoFile
                    /\ out'.who = "get"
                    /\ out'.status # 200 ]_vars

\* An upload deleted the document of the earlier run and failed at its write;
\* the download that followed found nothing although the store answers again.
C17_Witness ==
    /\ NoUpload
    /\ last.status = 500
    /\ last.phase \in {"put", "putfiles"}
    /\ batch.init = 1
    /\ files = {}
    /\ storeUp
    /\ out.who = "get"
    /\ out.status # 200

\* C18 (LeftoverSerialSpec).  Uploads one at a time on a store that held two
\* documents at start-up: an upload that has reached its write has deleted
\* every file document, and whenever no upload is in progress and the upload
\* answered last succeeded, the store holds exactly one file document, the one
\* that upload stored.
C18_UploadReplacesEveryDocument ==
    /\ \A u \in Uploaders :
          upc[u] \in {"put", "putfiles"} => (utodo[u] = {} /\ files = {})
    /\ (NoUpload /\ last.status = 200) =>
          \E d \in files :
              /\ files = {d}
              /\ d.id = last.id
              /\ d.id \notin {OldFile.id, RacedFile.id}
              /\ d.filename = last.req.filename
              /\ d.length = Len(last.req.data)

\* The first upload of the run, on the store of two documents, has succeeded.
C18_Witness ==
    /\ NoUpload
    /\ nreq = 1
    /\ last.status = 200
    /\ nextId = 4
    /\ Cardinality(files) = 1
    /\ OldFile \notin files
    /\ RacedFile \notin files

\* C19 as stated (LeftoverSpec).  With more than one file document stored, the
\* download's lookup finds the document whose write completed last: the one
\* stored by the upload that was answered last.
C19_Original ==
    [][ (rpc = "find" /\ rpc' = "read" /\ Cardinality(files) > 1
           /\ last.status = 200 /\ last.id \in Enumerate)
          => rfile'.id = last.id ]_vars

\* C19 (LeftoverSpec).  The download's lookup finds a stored file document
\* whose upload date no other stored document exceeds, however many are
\* stored; the 200 that follows carries that document's bytes, its length as
\* Content-Length and, in main.py, its name in Content-Disposition.
C19_LatestByUploadDate ==
    [][ /\ (rpc = "find" /\ rpc' = "read") =>
              /\ rfile' \in files
              /\ \A g \in files : g.uploadDate <= rfile'.uploadDate
        /\ (rpc = "read" /\ out'.who = "get" /\ out'.status = 200) =>
              /\ Len(out'.body) = rfile.length
              /\ rfile.length > 0 =>
                    \E c \in chunks : c.files_id = rfile.id /\ c.data = out'.body
              /\ ParseInt(out'.length) = rfile.length
              /\ program = "main" =>
                    out'.disposition = ContentDisposition(rfile.filename) ]_vars

\* main.py has just served a.pdf, the document with the later upload date and
\* the smaller identifier, from a store that holds two documents.
C19_Witness ==
    /\ program = "main"
    /\ files = {OldFile, RacedFile}
    /\ out.who = "get"
    /\ out.status = 200
    /\ out.body = OldChunk.data
    /\ out.disposition = ContentDisposition(OldFile.filename)

=============================================================================
